---- MODULE Spec2Model ----
(***************************************************************************)
(* Recursive forecast synthesis of model/inference.py: _predict_next       *)
(* (feature synthesis for one future period) and run_inference (the four   *)
(* recursive loops, hourly, daily, weekly, monthly, and the merge).        *)
(*                                                                         *)
(* Timestamps are whole hours since 2023-01-01 00:00, a Sunday.   Numbers   *)
(* are exact rationals <<n, d>> in lowest terms; NaN is <<0, 0>>.  A       *)
(* DataFrame is a sequence of rows; a row is a function from its columns   *)
(* to numbers; the date column is the column "date".                       *)
(***************************************************************************)
EXTENDS Integers, Sequences, FiniteSets, TLC

(***************************************************************************)
(* Numbers                                                                 *)
(***************************************************************************)
NaN == <<0, 0>>

IsNaN(v) == v[2] = 0

Abs(n) == IF n < 0 THEN -n ELSE n

RECURSIVE GCD(_, _)
GCD(a, b) == IF b = 0 THEN a ELSE GCD(b, a % b)

Norm(n, d) ==
    LET g == GCD(Abs(n), d) IN <<n \div g, d \div g>>

Num(n) == <<n, 1>>

RAdd(a, b) ==
    IF IsNaN(a) \/ IsNaN(b) THEN NaN
    ELSE Norm(a[1] * b[2] + b[1] * a[2], a[2] * b[2])

RMulInt(a, k) == IF IsNaN(a) THEN NaN ELSE Norm(a[1] * k, a[2])

RDivInt(a, k) == IF IsNaN(a) \/ k = 0 THEN NaN ELSE Norm(a[1], a[2] * k)

\* Comparisons with NaN are false, as for floats.
RLtZero(a) == ~IsNaN(a) /\ a[1] < 0
RGtZero(a) == ~IsNaN(a) /\ a[1] > 0
REqZero(a) == ~IsNaN(a) /\ a[1] = 0
RGeZero(a) == ~IsNaN(a) /\ a[1] >= 0

RECURSIVE SumSeq(_)
\* the exact sum of a sequence of numbers, by halves
SumSeq(s) ==
    IF s = <<>> THEN Num(0)
    ELSE IF Len(s) = 1 THEN s[1]
    ELSE RAdd(SumSeq(SubSeq(s, 1, Len(s) \div 2)),
              SumSeq(SubSeq(s, (Len(s) \div 2) + 1, Len(s))))

NotNaN(v) == ~IsNaN(v)

\* pandas Series.mean(): NaN entries are skipped; NaN when nothing is left.
Mean(s) ==
    LET vals == SelectSeq(s, NotNaN)
    IN  IF vals = <<>> THEN NaN ELSE RDivInt(SumSeq(vals), Len(vals))

Min(a, b) == IF a <= b THEN a ELSE b

\* s.iloc[-k:] for 0 < k <= Len(s)
TailN(s, k) == SubSeq(s, Len(s) - k + 1, Len(s))

Last(s) == s[Len(s)]

(***************************************************************************)
(* Calendar: pandas Timestamp fields and offsets on hour numbers           *)
(***************************************************************************)
YearLen(y) == IF y % 4 = 0 THEN 366 ELSE 365

MonthLen(y, m) ==
    IF m = 2 THEN (IF y % 4 = 0 THEN 29 ELSE 28)
    ELSE IF m \in {4, 6, 9, 11} THEN 30 ELSE 31

RECURSIVE YearOfDay(_, _)
\* <<year, day of year (from 0)>> of day number d counted from 1 Jan of y
YearOfDay(d, y) ==
    IF d < YearLen(y) THEN <<y, d>> ELSE YearOfDay(d - YearLen(y), y + 1)

RECURSIVE MonthOfDay(_, _, _)
\* <<month, day of month (from 1)>> of day-of-year d in year y, from month m
MonthOfDay(d, y, m) ==
    IF d < MonthLen(y, m) THEN <<m, d + 1>>
    ELSE MonthOfDay(d - MonthLen(y, m), y, m + 1)

\* <<year, month, day, hour>> of timestamp t
Civil(t) ==
    LET yd == YearOfDay(t \div 24, 2023)
        md == MonthOfDay(yd[2], yd[1], 1)
    IN  <<yd[1], md[1], md[2], t % 24>>

RECURSIVE DaysBeforeYear(_)
DaysBeforeYear(y) ==
    IF y <= 2023 THEN 0 ELSE DaysBeforeYear(y - 1) + YearLen(y - 1)

RECURSIVE DaysBeforeMonth(_, _)
DaysBeforeMonth(y, m) ==
    IF m <= 1 THEN 0 ELSE DaysBeforeMonth(y, m - 1) + MonthLen(y, m - 1)

\* the timestamp of a civil date
FromCivil(y, m, d, h) ==
    (DaysBeforeYear(y) + DaysBeforeMonth(y, m) + (d - 1)) * 24 + h

TsHour(t) == t % 24
\* Monday is 0; day 0 is a Sunday
TsDayOfWeek(t) == ((t \div 24) + 6) % 7
TsMonth(t) == Civil(t)[2]

\* t.replace(hour=0): midnight of t's day
DayStart(t) == t - (t % 24)
\* date - to_timedelta(date.dayofweek, unit="d")
WeekStart(t) == DayStart(t) - TsDayOfWeek(t) * 24
\* datetime(t.year, t.month, 1), Period("M").to_timestamp()
MonthStart(t) == LET c == Civil(t) IN FromCivil(c[1], c[2], 1, 0)

\* t + DateOffset(months=k): the day is clipped to the target month's length
AddMonths(t, k) ==
    LET c  == Civil(t)
        mi == (c[1] * 12 + (c[2] - 1)) + k
        y  == mi \div 12
        m  == (mi % 12) + 1
    IN  FromCivil(y, m, Min(c[3], MonthLen(y, m)), c[4])

(***************************************************************************)
(* Column names                                                            *)
(***************************************************************************)
TARGET_COL == "Estimated_Hourly_Cost_USD"
CAISO == "CAISO Total"
PRICE == "Monthly_Price_Cents_per_kWh"

critical_features == <<CAISO, PRICE>>
CriticalSet == {CAISO, PRICE}
TemporalSet == {"hour", "dayofweek", "month"}

\* the lag feature names of the feature tables, <<base, N>> each
LagNames ==
    [ daily_mean_cost_lag_1 |-> <<"daily_mean_cost", 1>>,
      daily_mean_cost_lag_7 |-> <<"daily_mean_cost", 7>> ]

\* "_lag_" in col
IsLagName(col) == col \in DOMAIN LagNames
\* int(col.split("_lag_")[1])
LagNum(col) == LagNames[col][2]
\* col.replace("_lag_" + str(lag_num), "") and col.split("_lag_")[0]
LagBase(col) == LagNames[col][1]
\* base_col + "_lag_1"
Lag1Name(base) ==
    CHOOSE c \in DOMAIN LagNames : LagNames[c] = <<base, 1>>

(***************************************************************************)
(* DataFrames                                                              *)
(***************************************************************************)
\* Python's None where a timestamp is optional: below every timestamp
None == 0 - 1

Row(date, v) == [date |-> date, v |-> v]

Columns(df) == IF df = <<>> THEN {} ELSE DOMAIN df[1].v

Col(df, col) == [i \in 1..Len(df) |-> df[i].v[col]]

\* row[col] = val
SetCol(row, col, val) == [row EXCEPT !.v = (col :> val) @@ row.v]

IsSorted(df) == \A i \in 1..(Len(df) - 1) : df[i].date <= df[i + 1].date

RECURSIVE InsertRow(_, _)
InsertRow(sorted, r) ==
    IF sorted = <<>> THEN <<r>>
    ELSE IF Last(sorted).date <= r.date THEN Append(sorted, r)
    ELSE Append(InsertRow(SubSeq(sorted, 1, Len(sorted) - 1), r), Last(sorted))

RECURSIVE InsertionSort(_, _)
InsertionSort(df, i) ==
    IF i = 0 THEN <<>> ELSE InsertRow(InsertionSort(df, i - 1), df[i])

\* df.sort_values(date_col): a stable sort by date
SortByDate(df) == IF IsSorted(df) THEN df ELSE InsertionSort(df, Len(df))

\* df[dates <= t]
RowsUpTo(df, t) == LET Keep(r) == r.date <= t IN SelectSeq(df, Keep)

\* df[dates >= t]
RowsFrom(df, t) == LET Keep(r) == r.date >= t IN SelectSeq(df, Keep)

(***************************************************************************)
(* The regression model: predict(X) is linear in the feature vector, with  *)
(* a missing (NaN) slot contributing nothing; the model raises on its      *)
(* failAt-th invocation (0: never).                                        *)
(***************************************************************************)
RECURSIVE SumKnown(_, _)
SumKnown(X, features) ==
    IF features = <<>> THEN Num(0)
    ELSE LET v == X[Head(features)]
         IN  RAdd(IF IsNaN(v) THEN Num(0) ELSE v, SumKnown(X, Tail(features)))

ModelPredict(model, X, features) ==
    RAdd(RMulInt(SumKnown(X, features), model.a), model.b)

ModelRaises(model, callNo) == model.failAt = callNo

(***************************************************************************)
(* _predict_next, step by step                                             *)
(***************************************************************************)
HistoryDays == 730
HourlyWindow == 24
DailyWindow == 30
MonthlyWindow == 12
LagWindow == 30
SameHourWindow == 7
WeekOfHours == 168
DebugPrints == 3

IsH(freq) == freq = "H"
IsD(freq) == freq = "D"
IsM(freq) == freq = "M"

\* the last two years of an hourly or daily table; every row otherwise
RecentRows(df, freq) ==
    IF IsH(freq) \/ IsD(freq)
    THEN RowsFrom(df, Last(df).date - HistoryDays * 24)
    ELSE df

\* the period to predict: target_date, else one step after the last row
\* (one month for "M", one hour for "H", one day for anything else)
NextDate(last_date, freq, target_date) ==
    IF target_date # None THEN target_date
    ELSE IF IsM(freq) THEN AddMonths(last_date, 1)
    ELSE IF IsH(freq) THEN last_date + 1
    ELSE last_date + 24

HistoryWhole(df, max_hist_date) == df

\* the rows an analog is searched in: those not after max_hist_date
HistoryRows(df, max_hist_date) ==
    IF max_hist_date # None THEN RowsUpTo(df, max_hist_date) ELSE df

\* the calendar match of a row dated d with the period next_date
CalendarMatch(freq, d, next_date) ==
    IF IsM(freq) THEN TsMonth(d) = TsMonth(next_date)
    ELSE IF IsH(freq)
    THEN /\ TsMonth(d) = TsMonth(next_date)
         /\ TsDayOfWeek(d) = TsDayOfWeek(next_date)
         /\ TsHour(d) = TsHour(next_date)
    ELSE /\ TsMonth(d) = TsMonth(next_date)
         /\ TsDayOfWeek(d) = TsDayOfWeek(next_date)

SimilarRows(history_df, freq, next_date) ==
    LET Keep(r) == CalendarMatch(freq, r.date, next_date)
    IN  SelectSeq(history_df, Keep)

\* the most recent similar row, else the last row
BaseRow(similar_rows, last_row) ==
    IF similar_rows # <<>> THEN Last(similar_rows) ELSE last_row

\* the set of the names in a list of columns
FeatureSet(features) == {features[i] : i \in 1..Len(features)}

\* the value next_row gets in a temporal column
TemporalValue(col, df, similar_rows, freq, next_date) ==
    CASE col = "hour" ->
            IF IsH(freq) THEN Num(TsHour(next_date))
            ELSE IF similar_rows # <<>> THEN Mean(Col(similar_rows, "hour"))
            ELSE Mean(Col(df, "hour"))
      [] col = "dayofweek" -> Num(TsDayOfWeek(next_date))
      [] col = "month" -> Num(TsMonth(next_date))

\* hour, dayofweek and month of next_row
TemporalUpdate(row, df, similar_rows, freq, next_date) ==
    [row EXCEPT !.v =
        [c \in TemporalSet \cap DOMAIN row.v |->
            TemporalValue(c, df, similar_rows, freq, next_date)] @@ row.v]

LagDateHours(freq, next_date, lag_num) == IF IsM(freq) THEN AddMonths(next_date, 0 - 1) ELSE next_date - lag_num

\* the timestamp a lag of lag_num periods looks up
LagDate(freq, next_date, lag_num) ==
    IF IsM(freq) THEN AddMonths(next_date, 0 - 1)
    ELSE IF IsH(freq) THEN next_date - lag_num
    ELSE next_date - lag_num * 24

\* lag_value of the try block; NaN stands for None as well
LagLookup(df, freq, next_date, lag_col) ==
    LET lag_num  == LagNum(lag_col)
        base_col == LagBase(lag_col)
        lag_rows == RowsUpTo(df, LagDate(freq, next_date, lag_num))
    IN  IF IsM(freq) /\ lag_num # 1
        THEN IF /\ Lag1Name(base_col) \in Columns(df)
                /\ lag_rows # <<>>
                /\ base_col \in Columns(df)
             THEN Last(lag_rows).v[base_col]
             ELSE NaN
        ELSE IF lag_rows = <<>> THEN NaN
        ELSE IF base_col \in Columns(df) THEN Last(lag_rows).v[base_col]
        ELSE IF lag_col \in Columns(df) THEN Last(lag_rows).v[lag_col]
        ELSE NaN

\* the fallback has a column to average: the lag column, else its base
HasLagFallback(df, lag_col) ==
    lag_col \in Columns(df) \/ LagBase(lag_col) \in Columns(df)

\* the fallback of one lag feature: the recent average of the lag column
\* itself, else of the base column
LagFallback(df, lag_col) ==
    IF lag_col \in Columns(df)
    THEN Mean(TailN(Col(df, lag_col), Min(LagWindow, Len(df))))
    ELSE Mean(TailN(Col(df, LagBase(lag_col)), Min(LagWindow, Len(df))))

\* the value next_row gets in a lag column
ResolveLag(df, freq, next_date, lag_col) ==
    IF ~IsNaN(LagLookup(df, freq, next_date, lag_col))
    THEN LagLookup(df, freq, next_date, lag_col)
    ELSE LagFallback(df, lag_col)

\* the lag features the loop assigns in next_row
LagResolved(df, freq, next_date, features) ==
    {c \in FeatureSet(features) :
        /\ IsLagName(c)
        /\ \/ ~IsNaN(LagLookup(df, freq, next_date, c))
           \/ HasLagFallback(df, c)}

\* the loop over the lag features of the model's feature list
ResolveLags(row, df, freq, next_date, features) ==
    [row EXCEPT !.v =
        [c \in LagResolved(df, freq, next_date, features) |->
            ResolveLag(df, freq, next_date, c)] @@ row.v]

InSeq(x, s) == \E i \in 1..Len(s) : s[i] = x

\* the trailing window of the generic fill, by frequency
FillWindow(freq) ==
    IF IsM(freq) THEN MonthlyWindow
    ELSE IF IsH(freq) THEN HourlyWindow
    ELSE DailyWindow

TailMean(df, col, window) == Mean(TailN(Col(df, col), Min(window, Len(df))))

\* critical features taken from the similar row: present, not NaN, not zero
AnalogCritical(analog, features, cols) ==
    {c \in FeatureSet(cols) \cap FeatureSet(features) \cap DOMAIN analog.v :
        ~IsNaN(analog.v[c]) /\ ~REqZero(analog.v[c])}

\* every other non-lag feature taken from the similar row: present, not NaN
AnalogOthers(analog, features) ==
    {c \in FeatureSet(features) \cap DOMAIN analog.v :
        ~IsLagName(c) /\ c \notin CriticalSet /\ ~IsNaN(analog.v[c])}

\* next_row after the copy from the most recent similar row
AnalogCopy(row, similar_rows, features) ==
    IF similar_rows = <<>> THEN row
    ELSE [row EXCEPT !.v =
            [c \in AnalogCritical(Last(similar_rows), features,
                                  critical_features)
                   \cup AnalogOthers(Last(similar_rows), features) |->
                Last(similar_rows).v[c]] @@ row.v]

FillAll(row, df, freq, features) ==
    [row EXCEPT !.v =
        [c \in FeatureSet(features) \cap DOMAIN row.v \cap Columns(df) |->
            TailMean(df, c, FillWindow(freq))] @@ row.v]

\* features still NaN get the trailing mean of their column
FillNaN(row, df, freq, features) ==
    [row EXCEPT !.v =
        [c \in {f \in FeatureSet(features) \cap DOMAIN row.v \cap Columns(df) :
                   IsNaN(row.v[f])} |->
            TailMean(df, c, FillWindow(freq))] @@ row.v]

\* the second pass of the same fill, after the first critical-feature pass
FillRemainingNaN(row, df, freq, features) == FillNaN(row, df, freq, features)

\* the value the first critical-feature pass gives a column
CriticalRecent(row, df, freq, col) ==
    IF IsH(freq) /\ "hour" \in DOMAIN row.v
    THEN LET hour == row.v["hour"][1] \div row.v["hour"][2]
             SameHour(r) == r.v["hour"] = Num(hour)
             same_hour_data == SelectSeq(df, SameHour)
         IN  IF same_hour_data # <<>>
             THEN TailMean(same_hour_data, col, SameHourWindow)
             ELSE TailMean(df, col, HourlyWindow)
    ELSE IF IsM(freq) THEN TailMean(df, col, MonthlyWindow)
    ELSE TailMean(df, col, DailyWindow)

\* a column of next_row that is missing, NaN or zero
Unset(row, col) ==
    \/ col \notin DOMAIN row.v
    \/ IsNaN(row.v[col])
    \/ REqZero(row.v[col])

\* critical features of the model that are missing, NaN or zero
CriticalGuard1(row, df, freq, features, cols) ==
    [row EXCEPT !.v =
        [c \in {f \in FeatureSet(cols) \cap FeatureSet(features)
                        \cap Columns(df) : Unset(row, f)} |->
            CriticalRecent(row, df, freq, c)] @@ row.v]

Positive(s) == SelectSeq(s, RGtZero)

CriticalLastKept(row, df, freq, col) == row.v[col]

\* the last pass: the mean of recent strictly positive values, else of the
\* recent values, else of all of them; kept only when it is a non-zero number
CriticalLast(row, df, freq, col) ==
    LET tail_size == IF IsH(freq) THEN Min(WeekOfHours, Len(df))
                     ELSE Min(DailyWindow, Len(df))
        non_zero_data == Positive(Col(df, col))
        recent_val ==
            IF non_zero_data # <<>>
            THEN Mean(TailN(non_zero_data, Min(tail_size, Len(non_zero_data))))
            ELSE Mean(TailN(Col(df, col), tail_size))
        overall_mean ==
            IF non_zero_data # <<>> THEN Mean(non_zero_data)
            ELSE Mean(Col(df, col))
    IN  IF ~IsNaN(recent_val) /\ ~REqZero(recent_val) THEN recent_val
        ELSE IF ~IsNaN(overall_mean) /\ ~REqZero(overall_mean)
        THEN overall_mean
        ELSE row.v[col]

\* critical columns of next_row that are still NaN or zero
CriticalGuard2(row, df, freq, cols) ==
    [row EXCEPT !.v =
        [c \in {f \in FeatureSet(cols) \cap DOMAIN row.v \cap Columns(df) :
                   IsNaN(row.v[f]) \/ REqZero(row.v[f])} |->
            CriticalLast(row, df, freq, c)] @@ row.v]

\* X = next_row[features]; a KeyError when a feature is no column of next_row
FeaturesPresent(row, features) ==
    \A i \in 1..Len(features) : features[i] \in DOMAIN row.v

SelectFeatures(row, features) ==
    [c \in {features[i] : i \in 1..Len(features)} |-> row.v[c]]

\* CAISO Total of X replaced by the mean of recent positive values
CaisoFix(X, df, features) ==
    IF /\ InSeq(CAISO, features)
       /\ (IsNaN(X[CAISO]) \/ REqZero(X[CAISO]))
       /\ CAISO \in Columns(df)
    THEN LET non_zero_caiso == Positive(Col(df, CAISO))
             overall == Mean(Col(df, CAISO))
         IN  IF non_zero_caiso # <<>>
             THEN [X EXCEPT ![CAISO] =
                     Mean(TailN(non_zero_caiso,
                                Min(WeekOfHours, Len(non_zero_caiso))))]
             ELSE IF RGtZero(overall) THEN [X EXCEPT ![CAISO] = overall]
             ELSE X
    ELSE X

\* the debug print of the first calls formats both critical features of X:
\* a TypeError when either is no column of X
DebugRaises(debug_count, features) ==
    /\ debug_count <= DebugPrints
    /\ (~InSeq(CAISO, features) \/ ~InSeq(PRICE, features))

ClampNever(pred) == pred

\* costs can't be negative
Clamp(pred) == IF RLtZero(pred) THEN Num(0) ELSE pred

Raise(why, debug_count) ==
    [raised |-> TRUE, why |-> why, debug_count |-> debug_count,
     next_date |-> None, raw |-> NaN, pred |-> NaN, X |-> <<>>,
     has_analog |-> FALSE, base_row |-> <<>>]

\* next_row: the base row redated, then each pass of the synthesis in turn
Synthesize(df, similar_rows, last_row, freq, next_date, features) ==
    CriticalGuard2(
      FillRemainingNaN(
        CriticalGuard1(
          FillNaN(
            AnalogCopy(
              ResolveLags(
                TemporalUpdate(
                  [BaseRow(similar_rows, last_row) EXCEPT !.date = next_date],
                  df, similar_rows, freq, next_date),
                df, freq, next_date, features),
              similar_rows, features),
            df, freq, features),
          df, freq, features, critical_features),
        df, freq, features),
      df, freq, critical_features)

\* the debug print, the model's prediction and the clamp
Invoke(model, features, X, next_date, similar_rows, last_row, count, callNo) ==
    IF DebugRaises(count, features) THEN Raise("TypeError", count)
    ELSE IF ModelRaises(model, callNo) THEN Raise("ModelError", count)
    ELSE [raised |-> FALSE, why |-> "", debug_count |-> count,
          next_date |-> next_date,
          raw |-> ModelPredict(model, X, features),
          pred |-> Clamp(ModelPredict(model, X, features)),
          X |-> X, has_analog |-> similar_rows # <<>>,
          base_row |-> BaseRow(similar_rows, last_row)]

PredictRow(model, features, df, next_row, next_date, similar_rows, debug_count, callNo) ==
    IF ~FeaturesPresent(next_row, features)
    THEN Raise("KeyError", debug_count)
    ELSE Invoke(model, features,
                CaisoFix(SelectFeatures(next_row, features), df, features),
                next_date, similar_rows, Last(df), debug_count + 1, callNo)

PredictSimilar(model, features, df, freq, next_date, similar_rows, debug_count, callNo) ==
    PredictRow(model, features, df,
               Synthesize(df, similar_rows, Last(df), freq, next_date,
                          features),
               next_date, similar_rows, debug_count, callNo)

PredictAt(model, features, df, freq, next_date, max_hist_date, debug_count, callNo) ==
    PredictSimilar(model, features, df, freq, next_date,
                   SimilarRows(HistoryRows(df, max_hist_date), freq,
                               next_date),
                   debug_count, callNo)

PredictRecent(model, features, df, freq, target_date, max_hist_date, debug_count, callNo) ==
    PredictAt(model, features, df, freq,
              NextDate(Last(df).date, freq, target_date), max_hist_date,
              debug_count, callNo)

\* _predict_next(model, features, df, "date", label, freq, target_date,
\* max_hist_date), called with the function's call counter at debug_count;
\* callNo is the number of this invocation of the model
PredictNext(model, features, df0, freq, target_date, max_hist_date, debug_count, callNo) ==
    IF df0 = <<>> THEN Raise("ValueError", debug_count)
    ELSE PredictRecent(model, features, RecentRows(SortByDate(df0), freq),
                       freq, target_date, max_hist_date, debug_count, callNo)

\* the Prediction Record _predict_next returns
Record(out, label) ==
    [target |-> TARGET_COL, prediction |-> out.pred, for |-> label,
     feature_date |-> out.next_date]

(***************************************************************************)
(* _build_daily_and_monthly: the daily, weekly and monthly tables          *)
(***************************************************************************)
\* Series.sum(): NaN entries are skipped
SumSkipNaN(s) == SumSeq(SelectSeq(s, NotNaN))

\* the group a row dated t falls in: its day, its week or its month
GroupKey(by, t) ==
    CASE by = "date" -> DayStart(t)
      [] by = "week_start" -> WeekStart(t)
      [] by = "year_month" -> MonthStart(t)

GroupRows(df, by, k) ==
    LET In(r) == GroupKey(by, r.date) = k IN SelectSeq(df, In)

\* one row of groupby(by).agg(target: "sum", every other column: "mean")
Aggregate(g, k, cols) ==
    Row(k, [c \in cols |->
               IF c = TARGET_COL THEN SumSkipNaN(Col(g, c))
               ELSE Mean(Col(g, c))])

\* the keys of the groups, in increasing order
GroupKeys(df, by) ==
    LET Less(k1, k2) == k1 < k2
        keys == SortSeq([i \in 1..Len(df) |-> GroupKey(by, df[i].date)], Less)
        First(i) == i = 1 \/ keys[i] # keys[i - 1]
        firsts == SelectSeq([i \in 1..Len(keys) |-> i], First)
    IN  [j \in 1..Len(firsts) |-> keys[firsts[j]]]

GroupByKeys(df, by, keys) ==
    [i \in 1..Len(keys) |->
        Aggregate(GroupRows(df, by, keys[i]), keys[i], Columns(df))]

\* df.groupby(by).agg(...): one row per group, sorted by key
GroupBy(df, by) == GroupByKeys(df, by, GroupKeys(df, by))

BuildDaily(hourly) == GroupBy(hourly, "date")
BuildMonthly(daily) == GroupBy(daily, "year_month")
BuildWeekly(daily) == GroupBy(daily, "week_start")

(***************************************************************************)
(* run_inference                                                           *)
(***************************************************************************)
VARIABLES
    pc,              \* where run_inference is
    now,             \* datetime.now(), cut to the hour
    hist,            \* the hourly, daily, weekly and monthly history tables
    models,          \* the model of each granularity
    features,        \* the feature list of each granularity
    df,              \* hourly_df, daily_df, weekly_df, monthly_df
    buffer,          \* hourly_new_rows_buffer, daily_new_rows_buffer
    cur,             \* current_pred_hour, _day, _week, _month
    count,           \* hour_count, day_count, week_count, month_count
    all_predictions, \* the Prediction Records emitted so far
    results,         \* what run_inference returns
    debug_count,     \* _predict_next._debug_count
    calls            \* the _predict_next calls of the last step

vars == <<pc, now, hist, models, features, df, buffer, cur, count,
          all_predictions, results, debug_count, calls>>

Grans == {"hourly", "daily", "weekly", "monthly"}

max_hours == 3600
max_days == 180
max_weeks == 32
max_months == 12
HourlyFlush == 100
DailyFlush == 30
FutureDays == 31
MaxPredHourDays == 150
MaxPredDayDays == 180
MaxPredWeeks == 32
MaxPredMonths == 18

Freq(g) ==
    CASE g = "hourly" -> "H" [] g = "daily" -> "D"
      [] g = "weekly" -> "W" [] g = "monthly" -> "M"

Prefix(g) ==
    CASE g = "hourly" -> "hour" [] g = "daily" -> "day"
      [] g = "weekly" -> "week" [] g = "monthly" -> "month"

MaxIterationsMonths(g) == max_months

MaxIterations(g) ==
    CASE g = "hourly" -> max_hours [] g = "daily" -> max_days
      [] g = "weekly" -> max_weeks [] g = "monthly" -> max_months

AddPeriodDay(g, t) == t + 24

AddPeriodSame(g, t) == t

\* current += one period
AddPeriod(g, t) ==
    CASE g = "hourly" -> t + 1
      [] g = "daily" -> t + 24
      [] g = "weekly" -> t + 7 * 24
      [] g = "monthly" -> AddMonths(t, 1)

\* last_hourly_timestamp, last_daily_date, last_weekly_date, last_monthly_date
LastKnown(g) ==
    IF g = "hourly" THEN Last(SortByDate(hist.hourly)).date
    ELSE Last(hist[g]).date

target_future == now + FutureDays * 24

\* pred_hour_limit, pred_day_limit, pred_week_limit, pred_month_limit
PredLimit(g) ==
    CASE g = "hourly" ->
            Min(target_future, LastKnown(g) + MaxPredHourDays * 24)
      [] g = "daily" ->
            Min(DayStart(target_future), LastKnown(g) + MaxPredDayDays * 24)
      [] g = "weekly" ->
            Min(DayStart(target_future), LastKnown(g) + MaxPredWeeks * 7 * 24)
      [] g = "monthly" ->
            Min(MonthStart(target_future),
                AddMonths(LastKnown(g), MaxPredMonths))

\* max_hist_date of the loop's calls; the weekly loop passes last_daily_date
MaxHistDate(g) == IF g = "weekly" THEN LastKnown("daily") ELSE LastKnown(g)

FirstPeriodNext(g) == AddPeriod(g, LastKnown(g))

\* the first period of each loop; the last historical month is predicted
\* again when it is the current month
FirstPeriod(g) ==
    IF g = "monthly" /\ LastKnown(g) = MonthStart(now) THEN LastKnown(g)
    ELSE AddPeriod(g, LastKnown(g))

HasGap(g) == LastKnown(g) < PredLimit(g)

\* the state of g's loop: its working table, buffer, period and counter, the
\* records emitted so far, the debug counter, whether a call has raised
LoopState(g) ==
    [df |-> df[g], buffer |-> buffer[g], cur |-> cur[g], count |-> count[g],
     preds |-> all_predictions, debug_count |-> debug_count,
     raised |-> FALSE, calls |-> calls]

ContinuesToCap(g, st) == ~st.raised /\ st.count < MaxIterations(g)

ContinuesToLimit(g, st) == ~st.raised /\ st.cur <= PredLimit(g)

\* while current <= limit and count < max
Continues(g, st) ==
    /\ ~st.raised
    /\ st.cur <= PredLimit(g)
    /\ st.count < MaxIterations(g)

LoopGuard(g) == HasGap(g) /\ Continues(g, LoopState(g))

Call(g, table, target_date, max_hist_date, out) ==
    [g |-> g, df |-> table, target_date |-> target_date,
     max_hist_date |-> max_hist_date, out |-> out]

\* new_row: the last row of the working table, redated, with the prediction
NewRow(table, date, pred) ==
    SetCol([Last(table) EXCEPT !.date = date], TARGET_COL, pred)

BufferedOnly(table, buf, flush) == IF Len(buf) >= flush THEN <<buf, <<>>>> ELSE <<table, buf>>

\* rows kept in the buffer until flush of them are waiting
Buffered(table, buf, flush) ==
    IF Len(buf) >= flush THEN <<table \o buf, <<>>>> ELSE <<table, buf>>

\* what an iteration does with the outcome of its _predict_next call; b is
\* the working table and the buffer after the new row
IterationWith(g, st, out, b) ==
    IF out.raised
    THEN [st EXCEPT !.raised = TRUE, !.debug_count = out.debug_count,
                    !.calls = <<Call(g, st.df, st.cur, MaxHistDate(g), out)>>]
    ELSE [df |-> b[1], buffer |-> b[2],
          cur |-> AddPeriod(g, st.cur), count |-> st.count + 1,
          preds |-> Append(st.preds, Record(out, <<Prefix(g), st.cur>>)),
          debug_count |-> out.debug_count, raised |-> FALSE,
          calls |-> <<Call(g, st.df, st.cur, MaxHistDate(g), out)>>]

IterationOut(g, flush, st, out) ==
    IterationWith(g, st, out,
                  Buffered(st.df,
                           Append(st.buffer,
                                  NewRow(st.df, st.cur, out.pred)),
                           flush))

\* one iteration of a loop; flush = 1 for the loops that concat at once
Iteration(g, flush, st) ==
    IterationOut(g, flush, st,
                 PredictNext(models[g], features[g], st.df, Freq(g), st.cur,
                             MaxHistDate(g), st.debug_count, st.count + 1))

\* the loop's state becomes the state of run_inference; a raise leaves it
Assign(g, st, next) ==
    /\ df' = [df EXCEPT ![g] = st.df]
    /\ buffer' = [buffer EXCEPT ![g] = st.buffer]
    /\ cur' = [cur EXCEPT ![g] = st.cur]
    /\ count' = [count EXCEPT ![g] = st.count]
    /\ all_predictions' = st.preds
    /\ debug_count' = st.debug_count
    /\ calls' = st.calls
    /\ pc' = IF st.raised THEN "raised" ELSE next
    /\ UNCHANGED <<now, hist, models, features, results>>

LoopStep(g, flush) == Assign(g, Iteration(g, flush, LoopState(g)), g)

\* the final concat of the rows left in the buffer
Flushed(st) ==
    IF st.raised THEN st
    ELSE [st EXCEPT !.df = st.df \o st.buffer, !.buffer = <<>>]

\* the loop is over (or was never entered): the buffered rows are appended
LoopExit(g, next) == Assign(g, Flushed(LoopState(g)), next)

\* the iteration the loop makes from state st, if it makes one
Step(g, flush, st) ==
    IF Continues(g, st) THEN Iteration(g, flush, st) ELSE st

RECURSIVE RunLoop(_, _, _, _)
RECURSIVE RunRest(_, _, _, _)
\* the loop from state st on, which ends within n >= 1 iterations: its
\* first half, then the rest
RunLoop(g, flush, n, st) ==
    IF n = 1 THEN Step(g, flush, st)
    ELSE RunRest(g, flush, n - (n \div 2), RunLoop(g, flush, n \div 2, st))

RunRest(g, flush, n, half) ==
    IF half.raised THEN half ELSE RunLoop(g, flush, n, half)

\* the iterations a loop can make: each moves current by an hour or more
Periods(g) == PredLimit(g) - cur[g] + 1

\* a whole loop, from its first iteration to the final concat
Loop(g, flush, next) ==
    IF HasGap(g) /\ Periods(g) >= 1
    THEN Assign(g, Flushed(RunLoop(g, flush, Periods(g), LoopState(g))), next)
    ELSE Assign(g, Flushed(LoopState(g)), next)

\* the last dates, the limits and the first period of each loop; an empty
\* price table raises in build_hourly_dataset, and .iloc[-1] of an empty
\* hourly, daily, weekly or monthly table raises IndexError
Start ==
    /\ pc = "start"
    /\ IF \E g \in Grans : hist[g] = <<>>
       THEN pc' = "raised" /\ UNCHANGED cur
       ELSE /\ pc' = "hourly"
            /\ cur' = [g \in Grans |-> FirstPeriod(g)]
    /\ UNCHANGED <<now, hist, models, features, df, buffer, count,
                   all_predictions, results, debug_count, calls>>

HourlyStep == pc = "hourly" /\ LoopGuard("hourly")
              /\ LoopStep("hourly", HourlyFlush)
HourlyExit == pc = "hourly" /\ ~LoopGuard("hourly")
              /\ LoopExit("hourly", "daily")

DailyStep == pc = "daily" /\ LoopGuard("daily")
             /\ LoopStep("daily", DailyFlush)
DailyExit == pc = "daily" /\ ~LoopGuard("daily")
             /\ LoopExit("daily", "weekly")

WeeklyStep == pc = "weekly" /\ LoopGuard("weekly") /\ LoopStep("weekly", 1)
WeeklyExit == pc = "weekly" /\ ~LoopGuard("weekly")
              /\ LoopExit("weekly", "monthly")

MonthlyStep == pc = "monthly" /\ LoopGuard("monthly")
               /\ LoopStep("monthly", 1)
MonthlyExit == pc = "monthly" /\ ~LoopGuard("monthly")
               /\ LoopExit("monthly", "merge")

\* results.sort_values("feature_date")
SortRecords(recs) ==
    LET Before(r1, r2) == r1.feature_date < r2.feature_date
    IN  SortSeq(recs, Before)

\* the predictions of the loops, concatenated and sorted by date
Merge ==
    /\ pc = "merge"
    /\ all_predictions # <<>>
    /\ results' = SortRecords(all_predictions)
    /\ pc' = "done"
    /\ UNCHANGED <<now, hist, models, features, df, buffer, cur, count,
                   all_predictions, debug_count, calls>>

\* the table each single-step prediction is made from
FallbackTable(g) == IF g = "hourly" THEN SortByDate(hist.hourly) ELSE hist[g]

FallbackCall(g, debug) ==
    Call(g, FallbackTable(g), None, None,
         PredictNext(models[g], features[g], FallbackTable(g), Freq(g), None,
                     None, debug, 1))

RECURSIVE FallbackCalls(_, _)
\* the calls made for these granularities, in turn, up to the first raise;
\* each call sees the debug counter the call before left
FallbackCalls(gs, debug) ==
    IF gs = <<>> THEN <<>>
    ELSE LET c == FallbackCall(Head(gs), debug)
         IN  IF c.out.raised THEN <<c>>
             ELSE <<c>> \o FallbackCalls(Tail(gs), c.out.debug_count)

FallbackDone(cs) ==
    /\ calls' = cs
    /\ debug_count' = Last(cs).out.debug_count
    /\ IF Last(cs).out.raised
       THEN pc' = "raised" /\ UNCHANGED results
       ELSE /\ results' = << Record(cs[1].out, <<"next_hour", None>>),
                             Record(cs[2].out, <<"next_day", None>>),
                             Record(cs[4].out, <<"next_week", None>>),
                             Record(cs[3].out, <<"next_month", None>>) >>
            /\ pc' = "done"

\* no loop emitted anything: one single-step prediction per table, made in
\* the order hour, day, month, week
Fallback ==
    /\ pc = "merge"
    /\ all_predictions = <<>>
    /\ FallbackDone(FallbackCalls(<<"hourly", "daily", "monthly", "weekly">>,
                                  debug_count))
    /\ UNCHANGED <<now, hist, models, features, df, buffer, cur, count,
                   all_predictions>>

HourlyLoop == pc = "hourly" /\ Loop("hourly", HourlyFlush, "daily")
DailyLoop == pc = "daily" /\ Loop("daily", DailyFlush, "weekly")
WeeklyLoop == pc = "weekly" /\ Loop("weekly", 1, "monthly")
MonthlyLoop == pc = "monthly" /\ Loop("monthly", 1, "merge")

Next ==
    \/ Start
    \/ HourlyStep \/ HourlyExit
    \/ DailyStep \/ DailyExit
    \/ WeeklyStep \/ WeeklyExit
    \/ MonthlyStep \/ MonthlyExit
    \/ Merge
    \/ Fallback

(***************************************************************************)
(* Inputs: the hourly feature table, the clock, the model bundles          *)
(***************************************************************************)
MaxGap == 5
MaxFail == 5
WideGap == 169

AllColumns ==
    {TARGET_COL, CAISO, PRICE, "hour", "dayofweek", "month",
     "daily_mean_cost", "daily_mean_cost_lag_1", "daily_mean_cost_lag_7",
     "tavg"}

AllFeatures ==
    <<CAISO, PRICE, "hour", "dayofweek", "month", "daily_mean_cost",
      "daily_mean_cost_lag_1", "daily_mean_cost_lag_7", "tavg">>

\* the value of a column in the hourly row of timestamp t; zero and nan are
\* the timestamps whose load and price are zero and whose price, temperature
\* and 7-day lag are missing (a timestamp of both sets has no daily_mean_cost
\* either); hour, dayofweek and month are the timestamp's own
CellValue(c, t, zero, nan) ==
    CASE c = TARGET_COL -> Num(1 + (t % 3))
      [] c = CAISO -> IF t \in zero THEN Num(0) ELSE Num(10 + (t % 4))
      [] c = PRICE -> IF t \in nan THEN NaN
                      ELSE IF t \in zero THEN Num(0) ELSE Num(20 + (t % 2))
      [] c = "hour" -> Num(TsHour(t))
      [] c = "dayofweek" -> Num(TsDayOfWeek(t))
      [] c = "month" -> Num(TsMonth(t))
      [] c = "daily_mean_cost" ->
            IF t \in zero /\ t \in nan THEN NaN ELSE Num(TsHour(t))
      [] c = "daily_mean_cost_lag_1" -> Num(30 + (t % 5))
      [] c = "daily_mean_cost_lag_7" ->
            IF t \in nan THEN NaN ELSE Num(40 + (t % 3))
      [] c = "tavg" -> IF t \in nan THEN NaN ELSE Num(50 + (t % 6))

\* the timestamps of a set, in increasing order
Ascending(stamps) ==
    [i \in 1..Cardinality(stamps) |->
        CHOOSE t \in stamps : Cardinality({u \in stamps : u < t}) = i - 1]

HourlyTable(stamps, cols, zero, nan) ==
    LET ts == Ascending(stamps)
    IN  [i \in 1..Len(ts) |->
            Row(ts[i], [c \in cols |-> CellValue(c, ts[i], zero, nan)])]

\* the last hour of month m of year y
MonthEnd(y, m) == FromCivil(y, m, MonthLen(y, m), 23)

\* one day of 24 hours, Monday 2024-01-01
OneDay == {FromCivil(2024, 1, 1, h) : h \in 0..23}
\* three hours of Monday 2024-01-08 and the last two of Sunday 2024-01-14
TwoWeeks ==
    {FromCivil(2024, 1, 8, h) : h \in 0..2} \cup
    {FromCivil(2024, 1, 14, h) : h \in 22..23}
\* the last hour of each month, 2024-01 to 2025-01
ToJanuary ==
    {MonthEnd(2024, m) : m \in 1..12} \cup {MonthEnd(2025, 1)}
\* the last hour of each month, 2024-04 to 2025-04
ToApril ==
    {MonthEnd(2024, m) : m \in 4..12} \cup {MonthEnd(2025, m) : m \in 1..4}

ColumnSets ==
    { AllColumns,
      AllColumns \ {"daily_mean_cost"},
      AllColumns \ {"daily_mean_cost_lag_1"} }

\* the tables of a run: the hourly table and what is aggregated from it
Tables(hourly) ==
    [hourly |-> hourly, daily |-> BuildDaily(hourly),
     weekly |-> BuildWeekly(BuildDaily(hourly)),
     monthly |-> BuildMonthly(BuildDaily(hourly))]

\* the tables of a run whose hourly rows all have a missing Date (NaT):
\* groupby drops them and the aggregated tables are empty
TablesNoDate(hourly) ==
    [hourly |-> hourly, daily |-> <<>>, weekly |-> <<>>, monthly |-> <<>>]

\* the histories with an empty table
EmptyHistories ==
    {Tables(<<>>), TablesNoDate(HourlyTable(OneDay, AllColumns, {}, {}))}

Histories ==
    {Tables(HourlyTable(OneDay, AllColumns, {}, nan)) : nan \in {{}, OneDay}}
    \cup {Tables(HourlyTable(TwoWeeks, AllColumns, zero, nan)) :
            zero \in {{}, {FromCivil(2024, 1, 8, 0)}},
            nan \in {{}, {FromCivil(2024, 1, 8, 1)}}}
    \cup {Tables(HourlyTable(ToJanuary, cols, {}, {})) : cols \in ColumnSets}
    \cup {Tables(HourlyTable(ToApril, AllColumns, zero, {MonthEnd(2025, 4)})) :
            zero \in {{}, {MonthEnd(2025, 4)}}}

\* the histories whose runs are also made with the wide horizon
WideHistories ==
    {Tables(HourlyTable(TwoWeeks, AllColumns, {}, nan)) :
        nan \in {{}, {FromCivil(2024, 1, 8, 1)}}}

\* the feature list of a model trained on a table with these columns: every
\* column but the target, and the lag features
FeaturesOf(cols) ==
    LET Keep(f) == f \in cols \/ IsLagName(f) IN SelectSeq(AllFeatures, Keep)

\* a feature list without the critical features
NotCritical(f) == f \notin CriticalSet

\* predict(X) = a * sum(X) + b
ModelShapes ==
    { [a |-> 0, b |-> <<0 - 1, 50>>],
      [a |-> 1, b |-> Num(0)] }

\* the model of failG raises on its failK-th invocation
NoFailure == <<"none", 0>>
Failures == {NoFailure} \cup (Grans \X {1, 2, MaxFail})

\* the hours from the last hourly row to the clock's time plus 31 days
Gaps == {0, 1, 2, MaxGap}

\* the inputs of a run: tables, gap, model shape, failure, whether the
\* process is fresh (no earlier _predict_next call), feature list
Inputs ==
    {[tables |-> t, gap |-> gap, shape |-> shape, fail |-> fail,
      fresh |-> fresh, flist |-> flist] :
        t \in Histories, gap \in Gaps, shape \in ModelShapes,
        fail \in Failures, fresh \in BOOLEAN,
        flist \in {"all", "not critical"}}
    \cup
    {[tables |-> t, gap |-> WideGap, shape |-> shape, fail |-> NoFailure,
      fresh |-> TRUE, flist |-> "all"] :
        t \in WideHistories, shape \in ModelShapes}
    \cup
    {[tables |-> t, gap |-> gap, shape |-> [a |-> 1, b |-> Num(0)],
      fail |-> NoFailure, fresh |-> TRUE, flist |-> "all"] :
        t \in EmptyHistories, gap \in {0, 1}}

\* a feature that is a column of the table
Plain(cols, f) == f \in cols

FeatureList(inp) ==
    CASE inp.flist = "all" -> FeaturesOf(Columns(inp.tables.hourly))
      [] inp.flist = "not critical" ->
            SelectSeq(FeaturesOf(Columns(inp.tables.hourly)), NotCritical)
      [] inp.flist = "columns" ->
            LET Keep(f) == Plain(Columns(inp.tables.hourly), f)
            IN  SelectSeq(AllFeatures, Keep)

\* datetime.now(): gap hours before the last hourly row plus 31 days (of
\* 2024-01-01 00:00 when there is no row)
Clock(inp) ==
    IF inp.tables.hourly = <<>>
    THEN FromCivil(2024, 1, 1, 0) + inp.gap - FutureDays * 24
    ELSE Last(inp.tables.hourly).date + inp.gap - FutureDays * 24

InitWith(inp) ==
    /\ pc = "start"
    /\ hist = inp.tables
    /\ now = Clock(inp)
    /\ models = [g \in Grans |->
                    [a |-> inp.shape.a, b |-> inp.shape.b,
                     failAt |-> IF inp.fail[1] = g THEN inp.fail[2]
                                ELSE 0]]
    /\ features = [g \in Grans |-> FeatureList(inp)]
    /\ df = inp.tables
    /\ buffer = [g \in Grans |-> <<>>]
    /\ cur = [g \in Grans |-> None]
    /\ count = [g \in Grans |-> 0]
    /\ all_predictions = <<>>
    /\ results = <<>>
    /\ debug_count = IF inp.fresh THEN 0 ELSE DebugPrints
    /\ calls = <<>>

Init == \E inp \in Inputs : InitWith(inp)

Spec == Init /\ [][Next]_vars

\* run_inference with each loop as one step
NextLoops ==
    \/ Start
    \/ HourlyLoop
    \/ DailyLoop
    \/ WeeklyLoop
    \/ MonthlyLoop
    \/ Merge
    \/ Fallback

\* a clock more than a year after the last hourly row: the horizon is
\* beyond every cap
LongGap == 9200

\* the runs made loop by loop: those of the short horizons, and one of the
\* long horizon
HorizonInputs ==
    {inp \in Inputs : inp.fresh /\ inp.flist = "all" /\ inp.gap <= 2}
    \cup
    {[tables |-> Tables(HourlyTable({FromCivil(2024, 1, 14, 23)},
                                    {TARGET_COL, "tavg"}, {}, {})),
      gap |-> LongGap, shape |-> [a |-> 1, b |-> Num(0)],
      fail |-> NoFailure, fresh |-> FALSE, flist |-> "columns"]}

InitHorizon == \E inp \in HorizonInputs : InitWith(inp)

SpecHorizon == InitHorizon /\ [][NextLoops]_vars

(***************************************************************************)
(* evaluate.py: train on the years before the last complete year, predict  *)
(* that year day by day, week by week and month by month.  hist holds the  *)
(* tables of the full dataset, df the working tables of predict_year,      *)
(* all_predictions the lists daily_preds, weekly_preds and monthly_preds,  *)
(* results the dictionary predict_year returns                             *)
(***************************************************************************)
CompleteMonths == 11
EvalMaxDays == 400
EvalMaxWeeks == 60
EvalMaxMonths == 15

TsYear(t) == Civil(t)[1]

MaxOf(S) == CHOOSE x \in S : \A y \in S : y <= x

MinOf(S) == CHOOSE x \in S : \A y \in S : x <= y

\* hourly["year"].unique()
YearsOf(hourly) == {TsYear(hourly[i].date) : i \in 1..Len(hourly)}

\* year_data["date"].dt.month.nunique()
MonthsOf(hourly, y) ==
    {TsMonth(hourly[i].date) :
        i \in {j \in 1..Len(hourly) : TsYear(hourly[j].date) = y}}

\* the most recent year before the current one with data in 11 months or
\* more; without one, the most recent year before the current one; without
\* one, the oldest year
get_last_complete_year(hourly, current_year) ==
    LET past == {y \in YearsOf(hourly) : y < current_year}
        complete ==
            {y \in past : Cardinality(MonthsOf(hourly, y)) >= CompleteMonths}
    IN  IF complete # {} THEN MaxOf(complete)
        ELSE IF past # {} THEN MaxOf(past)
        ELSE MinOf(YearsOf(hourly))

eval_year == get_last_complete_year(hist.hourly, TsYear(now))

\* hourly[hourly["date"] < cutoff], cutoff the first hour of the year
HourlyTrain(hourly, year) ==
    LET Keep(r) == r.date < FromCivil(year, 1, 1, 0) IN SelectSeq(hourly, Keep)

\* hourly_full between year_start and year_end, which is December 31, 00:00
HourlyYear(hourly, year) ==
    LET Keep(r) == /\ r.date >= FromCivil(year, 1, 1, 0)
                   /\ r.date <= FromCivil(year, 12, 31, 0)
    IN  SelectSeq(hourly, Keep)

\* train_data: the tables train_on_historical_data returns
TrainData == Tables(HourlyTrain(hist.hourly, eval_year))

\* hourly_year, daily_year, weekly_year, monthly_year
YearData == Tables(HourlyYear(hist.hourly, eval_year))

EvalGrans == {"daily", "weekly", "monthly"}

EvalPc(g) ==
    CASE g = "daily" -> "predict_daily" [] g = "weekly" -> "predict_weekly"
      [] g = "monthly" -> "predict_monthly"

\* what predict_year does after the loop of g
EvalNext(g) ==
    CASE g = "daily" -> "predict_weekly" [] g = "weekly" -> "predict_monthly"
      [] g = "monthly" -> "returned"

EvalCap(g) ==
    CASE g = "daily" -> EvalMaxDays [] g = "weekly" -> EvalMaxWeeks
      [] g = "monthly" -> EvalMaxMonths

\* current_date before the loop of g: one period after the last training row
EvalFirst(g) == AddPeriod(g, Last(SortByDate(TrainData[g])).date)

\* end_date: the last date of the year's table
EvalEndDate(g) == Last(YearData[g]).date

\* while current_date <= end_date and count < cap
EvalGuard(g) == cur[g] <= EvalEndDate(g) /\ count[g] < EvalCap(g)

\* actual_row: the rows of the year's table with this date
ActualRows(g, date) ==
    LET Keep(r) == r.date = date IN SelectSeq(YearData[g], Keep)

EvalRecord(g, date, pred, actual) ==
    [g |-> g, date |-> date, prediction |-> pred, actual |-> actual]

\* daily_preds, weekly_preds, monthly_preds (with their dates and actuals)
EvalPreds(recs, g) == LET Keep(r) == r.g = g IN SelectSeq(recs, Keep)

\* if preds: predictions[g] = DataFrame(...)
Stored(g, res, preds) == IF preds # <<>> THEN (g :> preds) @@ res ELSE res

\* the code after the loop of g
EvalEnd(g) ==
    /\ results' = Stored(g, results, EvalPreds(all_predictions, g))
    /\ pc' = EvalNext(g)

OnErrorRaise(g) == pc' = "raised" /\ UNCHANGED results

\* except Exception: print, break
OnError(g) == EvalEnd(g)

\* the dataset is empty, or has no row before the year, or none in it
EvalRaises ==
    \/ hist.hourly = <<>>
    \/ HourlyTrain(hist.hourly, eval_year) = <<>>
    \/ HourlyYear(hist.hourly, eval_year) = <<>>

\* main up to the first loop of predict_year
EvalStart ==
    /\ pc = "evaluate"
    /\ IF EvalRaises
       THEN pc' = "raised" /\ UNCHANGED <<df, cur>>
       ELSE /\ pc' = "predict_daily"
            /\ df' = TrainData
            /\ cur' = [g \in Grans |->
                          IF g \in EvalGrans THEN EvalFirst(g) ELSE None]
    /\ UNCHANGED <<now, hist, models, features, buffer, count,
                   all_predictions, results, debug_count, calls>>

\* the body of the try block once _predict_next has returned
EvalIterate(g, out) ==
    /\ all_predictions' =
          IF ActualRows(g, cur[g]) # <<>>
          THEN Append(all_predictions,
                      EvalRecord(g, cur[g], out.pred,
                                 ActualRows(g, cur[g])[1].v[TARGET_COL]))
          ELSE all_predictions
    /\ df' = [df EXCEPT ![g] = Append(@, NewRow(@, cur[g], out.pred))]
    /\ cur' = [cur EXCEPT ![g] = AddPeriod(g, @)]
    /\ count' = [count EXCEPT ![g] = @ + 1]
    /\ UNCHANGED <<pc, results>>

EvalOutcome(g, out) ==
    /\ calls' = <<Call(g, df[g], cur[g], None, out)>>
    /\ debug_count' = out.debug_count
    /\ IF out.raised
       THEN OnError(g) /\ UNCHANGED <<df, cur, count, all_predictions>>
       ELSE EvalIterate(g, out)

\* one iteration of the loop of g
EvalStep(g) ==
    /\ EvalGuard(g)
    /\ EvalOutcome(g, PredictNext(models[g], features[g], df[g], Freq(g),
                                  cur[g], None, debug_count, count[g] + 1))
    /\ UNCHANGED <<now, hist, models, features, buffer>>

\* the loop of g ends by its guard
EvalExit(g) ==
    /\ ~EvalGuard(g)
    /\ EvalEnd(g)
    /\ UNCHANGED <<now, hist, models, features, df, buffer, cur, count,
                   all_predictions, debug_count, calls>>

DailyEvalStep == pc = "predict_daily" /\ EvalStep("daily")
DailyEvalExit == pc = "predict_daily" /\ EvalExit("daily")
WeeklyEvalStep == pc = "predict_weekly" /\ EvalStep("weekly")
WeeklyEvalExit == pc = "predict_weekly" /\ EvalExit("weekly")
MonthlyEvalStep == pc = "predict_monthly" /\ EvalStep("monthly")
MonthlyEvalExit == pc = "predict_monthly" /\ EvalExit("monthly")

NextEvaluate ==
    \/ EvalStart
    \/ DailyEvalStep \/ DailyEvalExit
    \/ WeeklyEvalStep \/ WeeklyEvalExit
    \/ MonthlyEvalStep \/ MonthlyEvalExit

\* a Monday and a Sunday of December 2024, then days of the first weeks of
\* 2025 and one of February
Seasons ==
    {FromCivil(2024, 12, 23, h) : h \in 0..1} \cup
    {FromCivil(2024, 12, 29, 23)} \cup
    {FromCivil(2025, 1, d, 0) : d \in {1, 2, 3, 6, 13}} \cup
    {FromCivil(2025, 2, 3, 0)}

\* the clocks of an evaluation: in 2025, when 2024 is the year evaluated and
\* there is nothing before it to train on, and in 2026
EvalClocks == {FromCivil(2025, 6, 1, 0), FromCivil(2026, 1, 15, 0)}

\* the evaluations: dataset, clock, model shape, failure, whether the
\* process is fresh, feature list
EvalInputs ==
    {[tables |-> Tables(HourlyTable(Seasons, AllColumns, {}, nan)),
      clock |-> clock, shape |-> shape, fail |-> fail, fresh |-> fresh,
      flist |-> flist] :
        nan \in {{}, {FromCivil(2024, 12, 23, 1)}}, clock \in EvalClocks,
        shape \in ModelShapes, fail \in Failures, fresh \in BOOLEAN,
        flist \in {"all", "not critical"}}

InitEvaluate ==
    \E inp \in EvalInputs :
        /\ pc = "evaluate"
        /\ hist = inp.tables
        /\ now = inp.clock
        /\ models = [g \in Grans |->
                        [a |-> inp.shape.a, b |-> inp.shape.b,
                         failAt |-> IF inp.fail[1] = g THEN inp.fail[2]
                                    ELSE 0]]
        /\ features = [g \in Grans |-> FeatureList(inp)]
        /\ df = Tables(<<>>)
        /\ buffer = [g \in Grans |-> <<>>]
        /\ cur = [g \in Grans |-> None]
        /\ count = [g \in Grans |-> 0]
        /\ all_predictions = <<>>
        /\ results = <<>>
        /\ debug_count = IF inp.fresh THEN 0 ELSE DebugPrints
        /\ calls = <<>>

SpecEvaluate == InitEvaluate /\ [][NextEvaluate]_vars

(***************************************************************************)
\* the records among recs that the loop of granularity g emitted
RecordsOf(recs, g) ==
    LET Keep(r) == r.for[1] = Prefix(g) IN SelectSeq(recs, Keep)

\* the _predict_next calls of the last step that returned a record
Returned(c) == ~c.out.raised

\* the last step was an iteration of g's loop whose call returned
Iterated(g) ==
    /\ pc = g
    /\ Len(calls) = 1
    /\ calls[1].g = g
    /\ Returned(calls[1])

\* C1: every Prediction Record has prediction >= 0: a raw model output
\* below zero is emitted as exactly 0, any other raw output unchanged
C1_NonNegative ==
    /\ \A i \in 1..Len(all_predictions) :
          RGeZero(all_predictions[i].prediction)
    /\ \A i \in 1..Len(results) : RGeZero(results[i].prediction)
    /\ \A i \in 1..Len(calls) :
          Returned(calls[i]) =>
              /\ RLtZero(calls[i].out.raw) => calls[i].out.pred = Num(0)
              /\ ~RLtZero(calls[i].out.raw) =>
                    calls[i].out.pred = calls[i].out.raw

\* a loop iteration whose model returned -0.02 and whose record holds 0
C1_Witness ==
    \E g \in Grans :
        /\ Iterated(g)
        /\ calls[1].out.raw = <<0 - 1, 50>>
        /\ Last(all_predictions).prediction = Num(0)
        /\ Last(all_predictions).feature_date = calls[1].target_date

\* a call of g's loop raised and the exception left run_inference
RaisedIn(g) ==
    /\ pc = "raised"
    /\ calls # <<>>
    /\ Last(calls).g = g
    /\ Last(calls).out.raised
    /\ Last(calls).target_date # None

\* C2: when the call of iteration k of a loop raises, the k-1 records the
\* loop emitted before are returned by the run
C2_PartialResults ==
    \A g \in Grans :
        RaisedIn(g) => Len(RecordsOf(results, g)) = count[g]

\* C3: a failure inside one granularity's loop does not stop the run: the
\* other loops still run and run_inference returns a result
C3_ErrorsContained ==
    \A i \in 1..Len(calls) : calls[i].out.raised => pc # "raised"

\* the working table has a row dated t
HasRow(table, t) == \E j \in 1..Len(table) : table[j].date = t

\* C4: at every iteration k >= 2 of a loop, the working history handed to
\* _predict_next holds one row for each period predicted in iterations
\* 1..k-1 (hourly and daily loops as well as weekly and monthly)
C4_LagSeesSynthesized ==
    \A g \in Grans :
        Iterated(g) =>
            \A i \in 1..(Len(RecordsOf(all_predictions, g)) - 1) :
                HasRow(calls[1].df,
                       RecordsOf(all_predictions, g)[i].feature_date)

\* the rows of a call's table that this run appended and that
\* calendar-match the call's target period
SynthesizedMatches(c) ==
    LET Keep(r) == /\ r.date > LastKnown(c.g)
                   /\ CalendarMatch(Freq(c.g), r.date, c.target_date)
    IN  SelectSeq(c.df, Keep)

\* C5 as stated: at iteration k >= 2 a synthesized row that calendar-matches
\* the target and is the most recent match is the analog selected
C5_AnalogSeesSynthesized ==
    \A g \in Grans :
        Iterated(g) /\ SynthesizedMatches(calls[1]) # <<>> =>
            calls[1].out.base_row = Last(SynthesizedMatches(calls[1]))

\* the latest date an analog of the call may have
AnalogLimit(c) ==
    IF c.max_hist_date # None THEN c.max_hist_date ELSE Last(c.df).date

\* C5: the analog selected is the most recent calendar-matching row dated
\* at or before the last known period (max_hist_date); a synthesized row
\* after that date is never selected, even when it is the most recent match
C5_AnalogFromHistory ==
    \A i \in 1..Len(calls) :
        Returned(calls[i]) /\ calls[i].out.has_analog =>
            /\ \E j \in 1..Len(calls[i].df) :
                  calls[i].df[j] = calls[i].out.base_row
            /\ calls[i].out.base_row.date <= AnalogLimit(calls[i])
            /\ CalendarMatch(Freq(calls[i].g), calls[i].out.base_row.date,
                             calls[i].out.next_date)
            /\ \A j \in 1..Len(calls[i].df) :
                  /\ calls[i].df[j].date > calls[i].out.base_row.date
                  /\ CalendarMatch(Freq(calls[i].g), calls[i].df[j].date,
                                   calls[i].out.next_date)
                  => calls[i].df[j].date > AnalogLimit(calls[i])

\* an iteration k >= 2 whose table holds a synthesized row matching the
\* target, and whose analog is a row of the true history
C5_Witness ==
    \E g \in Grans :
        /\ Iterated(g)
        /\ count[g] >= 2
        /\ SynthesizedMatches(calls[1]) # <<>>
        /\ calls[1].out.has_analog
        /\ calls[1].out.base_row.date <= calls[1].max_hist_date
        /\ Last(SynthesizedMatches(calls[1])).date > calls[1].max_hist_date

\* b is exactly one period unit of g after a
OneUnitLater(g, a, b) ==
    CASE g = "hourly" -> b = a + 1
      [] g = "daily" -> b = a + 24
      [] g = "weekly" -> b = a + 168
      [] g = "monthly" ->
            /\ Civil(b)[1] * 12 + Civil(b)[2]
                  = Civil(a)[1] * 12 + Civil(a)[2] + 1
            /\ Civil(b)[3] = Civil(a)[3]
            /\ Civil(b)[4] = Civil(a)[4]

\* the records of a sequence are dated one period unit apart, in order
UnitSpaced(g, recs) ==
    \A i \in 1..(Len(recs) - 1) :
        /\ recs[i].feature_date < recs[i + 1].feature_date
        /\ OneUnitLater(g, recs[i].feature_date, recs[i + 1].feature_date)

\* C6: within each granularity the timestamps of the emitted records are
\* strictly increasing in emission order and consecutive records are exactly
\* one period unit apart (1 hour, 1 day, 1 week, 1 calendar month); the
\* same holds of the records run_inference returns
C6_MonotonicPeriods ==
    \A g \in Grans :
        /\ UnitSpaced(g, RecordsOf(all_predictions, g))
        /\ UnitSpaced(g, RecordsOf(results, g))

\* a finished run that returns two hourly records and two monthly records,
\* the first month being the last month of the history
C6_Witness ==
    /\ pc = "done"
    /\ Len(RecordsOf(results, "hourly")) >= 2
    /\ Len(RecordsOf(results, "monthly")) >= 2
    /\ RecordsOf(results, "monthly")[1].feature_date = LastKnown("monthly")

\* max_iterations(g)
IterationCap(g) ==
    CASE g = "hourly" -> 3600 [] g = "daily" -> 180
      [] g = "weekly" -> 32 [] g = "monthly" -> 12

\* C7: a granularity's loop never emits more than max_iterations(g) records
\* (3600 hourly, 180 daily, 32 weekly, 12 monthly), whatever the gap between
\* the last known period and the horizon limit
C7_BoundedHorizon ==
    \A g \in Grans :
        /\ count[g] <= IterationCap(g)
        /\ Len(RecordsOf(all_predictions, g)) <= IterationCap(g)
        /\ Len(RecordsOf(results, g)) <= IterationCap(g)

\* a finished run whose monthly loop stopped at 12 records with its period
\* still within the limit, and whose hourly loop emitted 3600 records
C7_Witness ==
    /\ pc = "done"
    /\ count["monthly"] = 12
    /\ cur["monthly"] <= PredLimit("monthly")
    /\ Len(RecordsOf(results, "monthly")) = 12
    /\ Len(RecordsOf(results, "hourly")) = 3600

\* the features of a call that are neither lag features nor temporal fields
CopiedFeatures(c) ==
    {f \in DOMAIN c.out.X : ~IsLagName(f) /\ f \notin TemporalSet}

\* C8 as stated: with a calendar analog, every non-lag, non-temporal feature
\* of the vector passed to the model has exactly the analog's value, the
\* critical features and zero analog values included
C8_AnalogPreference ==
    \A i \in 1..Len(calls) :
        Returned(calls[i]) /\ calls[i].out.has_analog =>
            \A f \in CopiedFeatures(calls[i]) :
                calls[i].out.X[f] = calls[i].out.base_row.v[f]

\* the analog's value of f is one the synthesis keeps: a number, and not
\* zero when f is a critical feature
Kept(f, analog) ==
    /\ ~IsNaN(analog.v[f])
    /\ f \in {"CAISO Total", "Monthly_Price_Cents_per_kWh"} =>
          ~REqZero(analog.v[f])

\* C8: with a calendar analog, every non-lag, non-temporal feature whose
\* analog value is a number (and, for the two critical features, not zero)
\* has exactly the analog's value in the vector passed to the model; a
\* critical feature whose analog value is zero is never passed as zero when
\* its column holds a positive value
C8_AnalogKept ==
    \A i \in 1..Len(calls) :
        Returned(calls[i]) /\ calls[i].out.has_analog =>
            \A f \in CopiedFeatures(calls[i]) :
                /\ Kept(f, calls[i].out.base_row) =>
                      calls[i].out.X[f] = calls[i].out.base_row.v[f]
                /\ /\ f = "CAISO Total"
                   /\ REqZero(calls[i].out.base_row.v[f])
                   /\ \E j \in 1..Len(calls[i].df) :
                         RGtZero(calls[i].df[j].v[f])
                   => RGtZero(calls[i].out.X[f])

\* an hourly iteration whose analog is not the last row of the table and
\* whose vector holds the analog's temperature and load, not the last row's
C8_Witness ==
    /\ Iterated("hourly")
    /\ calls[1].out.has_analog
    /\ calls[1].out.base_row # Last(calls[1].df)
    /\ Kept("tavg", calls[1].out.base_row)
    /\ calls[1].out.X["tavg"] = calls[1].out.base_row.v["tavg"]
    /\ calls[1].out.X["tavg"] # Last(calls[1].df).v["tavg"]
    /\ Kept("CAISO Total", calls[1].out.base_row)
    /\ calls[1].out.X["CAISO Total"] = calls[1].out.base_row.v["CAISO Total"]

\* the window of the fallback mean
FallbackWindow(g) ==
    CASE g = "hourly" -> 24 [] g = "daily" -> 30
      [] g = "weekly" -> 30 [] g = "monthly" -> 12

\* the mean of the last window values of a column (of all of them when the
\* table is shorter)
WindowMean(table, col, window) ==
    Mean(Col(SubSeq(table, IF Len(table) > window
                           THEN Len(table) - window + 1 ELSE 1,
                    Len(table)), col))

\* C9: with no calendar analog, a feature with no lag source (and that is
\* no temporal field) is synthesized as the mean of the last window values
\* of its column in the working history: 11.5 for a column holding 0..23,
\* not the last row's 23
C9_FallbackMean ==
    \A i \in 1..Len(calls) :
        Returned(calls[i]) /\ ~calls[i].out.has_analog =>
            \A f \in CopiedFeatures(calls[i]) \cap Columns(calls[i].df) :
                calls[i].out.X[f] =
                    WindowMean(calls[i].df, f, FallbackWindow(calls[i].g))

\* C10: for the monthly granularity the value synthesized for B_lag_N, N > 1,
\* is the value synthesized for B_lag_1, whether the base column exists, only
\* the lag columns exist, or the fallback mean is used
C10_MonthlyLagCollapse ==
    \A i \in 1..Len(calls) :
        Returned(calls[i]) /\ calls[i].g = "monthly" =>
            \A f \in DOMAIN calls[i].out.X :
                /\ IsLagName(f)
                /\ LagNum(f) > 1
                /\ Lag1Name(LagBase(f)) \in DOMAIN calls[i].out.X
                => calls[i].out.X[f] = calls[i].out.X[Lag1Name(LagBase(f))]

\* the records of a sequence are in ascending order of feature_date
Ascends(recs) ==
    \A i \in 1..(Len(recs) - 1) :
        recs[i].feature_date <= recs[i + 1].feature_date

\* C11: the records run_inference returns are sorted by feature_date
\* ascending across all granularities, on every path that produces the
\* result, the single-step fallback included
C11_SortedResult == pc = "done" => Ascends(results)

\* the label a single-step forecast of granularity g carries
NextLabel(g) ==
    CASE g = "hourly" -> "next_hour" [] g = "daily" -> "next_day"
      [] g = "weekly" -> "next_week" [] g = "monthly" -> "next_month"

\* the records of the result that granularity g contributed, recursive or
\* single-step
Contribution(g) ==
    LET Keep(r) == r.for[1] = Prefix(g) \/ r.for[1] = NextLabel(g)
    IN  SelectSeq(results, Keep)

\* the last known period of g is not before g's horizon limit
NoGap(g) == ~(LastKnown(g) < PredLimit(g))

\* C12: in the result of a run, a granularity without a gap contributes
\* exactly one single-step record for its next period, also when other
\* granularities have a gap and emit recursive predictions
C12_NoGapSingleStep ==
    pc = "done" =>
        \A g \in Grans :
            NoGap(g) =>
                /\ Len(Contribution(g)) = 1
                /\ Contribution(g)[1].for[1] = NextLabel(g)

\* the period one unit of g after timestamp t
UnitAfter(g, t) ==
    CASE g = "hourly" -> t + 1
      [] g = "daily" -> t + 24
      [] g = "weekly" -> t + 168
      [] g = "monthly" ->
            CHOOSE u \in (t + 28 * 24)..(t + 31 * 24) :
                OneUnitLater("monthly", t, u)

\* C13: when the loops of all four granularities emit nothing, the run
\* returns exactly four records, one single-step forecast per granularity,
\* each dated one unit of its own granularity after the granularity's last
\* known row (one week, not one day, for the weekly record)
C13_FallbackPerGranularity ==
    pc = "done" /\ all_predictions = <<>> =>
        /\ Len(results) = 4
        /\ \A g \in Grans :
              /\ Len(Contribution(g)) = 1
              /\ Contribution(g)[1].feature_date = UnitAfter(g, LastKnown(g))

\* C14: when the historical table of one granularity is empty at run start,
\* that granularity is skipped without raising and the run goes on to its
\* result
C14_MissingHistorySkipped ==
    (\E g \in Grans : hist[g] = <<>>) => pc # "raised"

\* the names of a list of features
Names(flist) == {flist[i] : i \in 1..Len(flist)}

\* C15: when every required column exists in the working history, the
\* vector passed to model.predict holds every feature of the model's list
\* and none of its values is NaN, also when a column is NaN in the base row
\* and in every row of the fallback window
C15_CompleteVector ==
    \A i \in 1..Len(calls) :
        /\ Names(features[calls[i].g]) \subseteq Columns(calls[i].df)
        /\ calls[i].out.why \notin {"TypeError", "ModelError"}
        => /\ Returned(calls[i])
           /\ DOMAIN calls[i].out.X = Names(features[calls[i].g])
           /\ \A f \in DOMAIN calls[i].out.X : ~IsNaN(calls[i].out.X[f])

\* the critical features of the vector a call passed to the model
CriticalOf(c) ==
    {"CAISO Total", "Monthly_Price_Cents_per_kWh"} \cap DOMAIN c.out.X

Working(c) ==
    LET Keep(r) == \/ c.g \in {"weekly", "monthly"}
                   \/ r.date >= Last(c.df).date - 730 * 24
    IN  SelectSeq(c.df, Keep)

\* the column f of the working rows holds a strictly positive value
HasPositive(c, f) ==
    \E j \in 1..Len(Working(c)) : RGtZero(Working(c)[j].v[f])

LagFeatures(c) == {f \in Names(features[c.g]) : IsLagName(f)}

\* C17: a call that the model itself does not fail returns, and every lag
\* feature of the model's list has a value in the vector that is not NaN
C17_LagAlwaysFinite ==
    \A i \in 1..Len(calls) :
        calls[i].out.why \notin {"TypeError", "ModelError"} =>
            /\ Returned(calls[i])
            /\ \A f \in LagFeatures(calls[i]) :
                /\ f \in DOMAIN calls[i].out.X
                /\ ~IsNaN(calls[i].out.X[f])

\* the row of a call's true history (dated at or before AnalogLimit) is a
\* candidate analog: it calendar-matches the target and is dated before it
Candidate(c, r) ==
    /\ r.date <= AnalogLimit(c)
    /\ r.date < c.out.next_date
    /\ CalendarMatch(Freq(c.g), r.date, c.out.next_date)

\* C19: the analog of target period p satisfies the granularity's match
\* rule, is dated strictly before p (never at p) and is the latest such row
\* of the history
C19_AnalogStrictlyBefore ==
    \A i \in 1..Len(calls) :
        Returned(calls[i]) /\ calls[i].out.has_analog =>
            /\ Candidate(calls[i], calls[i].out.base_row)
            /\ \A j \in 1..Len(calls[i].df) :
                  Candidate(calls[i], calls[i].df[j]) =>
                      calls[i].df[j].date <= calls[i].out.base_row.date

\* the calendar value of a temporal feature at timestamp t
CalendarValue(f, t) ==
    CASE f = "hour" -> Num(TsHour(t))
      [] f = "dayofweek" -> Num(TsDayOfWeek(t))
      [] f = "month" -> Num(TsMonth(t))

\* C20: every temporal feature (hour, dayofweek, month) of the vector passed
\* to the model equals the target period's own calendar value, for every
\* granularity
C20_TemporalExact ==
    \A i \in 1..Len(calls) :
        Returned(calls[i]) =>
            \A f \in TemporalSet \cap DOMAIN calls[i].out.X :
                calls[i].out.X[f] =
                    CalendarValue(f, calls[i].out.next_date)

\* the lookup timestamp of a lag of n periods for target period p
LookupTime(g, p, n) ==
    CASE g = "hourly" -> p - n
      [] g = "daily" -> p - n * 24
      [] g = "weekly" -> p - n * 24
      [] g = "monthly" -> AddMonths(p, 0 - 1)

\* the rows of a call's table at or before the lookup timestamp of lag f
LookedUp(c, f) ==
    RowsUpTo(c.df, LookupTime(c.g, c.out.next_date, LagNum(f)))

\* the lookup of lag feature f of a call finds a number: the base column
\* exists, a row is dated at or before the lookup timestamp and the base
\* value of the latest such row is not NaN (monthly: N = 1 only)
LagFound(c, f) ==
    /\ c.g = "monthly" => LagNum(f) = 1
    /\ LagBase(f) \in Columns(c.df)
    /\ LookedUp(c, f) # <<>>
    /\ ~IsNaN(Last(LookedUp(c, f)).v[LagBase(f)])

\* C21: a lag feature B_lag_N of a call for period p holds, in the vector
\* passed to the model, the base feature B of the latest row of the working
\* history dated at or before p minus N hours (hourly), N days (daily and
\* weekly) or one month (monthly, N = 1), whenever that row exists and its B
\* is not NaN
C21_LagLookup ==
    \A i \in 1..Len(calls) :
        Returned(calls[i]) =>
            \A f \in LagFeatures(calls[i]) :
                LagFound(calls[i], f) =>
                    /\ f \in DOMAIN calls[i].out.X
                    /\ calls[i].out.X[f] =
                          Last(LookedUp(calls[i], f)).v[LagBase(f)]

\* a daily iteration whose 7-day lag is read from a row dated before the
\* lookup timestamp, not at it, and differs from the analog or last row's
C21_Witness ==
    /\ Iterated("daily")
    /\ "daily_mean_cost_lag_7" \in LagFeatures(calls[1])
    /\ LagFound(calls[1], "daily_mean_cost_lag_7")
    /\ Last(LookedUp(calls[1], "daily_mean_cost_lag_7")).date
          < LookupTime("daily", calls[1].out.next_date, 7)
    /\ calls[1].out.X["daily_mean_cost_lag_7"]
          # calls[1].out.base_row.v["daily_mean_cost_lag_7"]

\* the lookup of lag feature f of a call yields nothing: no row is dated at
\* or before the lookup timestamp, or the base value read there is NaN
\* (monthly: N = 1 only)
LagMissing(c, f) ==
    /\ c.g = "monthly" => LagNum(f) = 1
    /\ \/ LookedUp(c, f) = <<>>
       \/ /\ LagBase(f) \in Columns(c.df)
          /\ IsNaN(Last(LookedUp(c, f)).v[LagBase(f)])

\* the column the lag fallback averages: the lag column, else the base
FallbackColumn(c, f) == IF f \in Columns(c.df) THEN f ELSE LagBase(f)

\* C22: a lag feature whose lookup yields nothing is set to the mean of the
\* last window values (24 hourly, 30 daily, 12 monthly) of the lag column
\* itself, or of the base column when the lag column is absent
C22_LagFallbackWindow ==
    \A i \in 1..Len(calls) :
        Returned(calls[i]) =>
            \A f \in LagFeatures(calls[i]) :
                /\ LagMissing(calls[i], f)
                /\ FallbackColumn(calls[i], f) \in Columns(calls[i].df)
                => /\ f \in DOMAIN calls[i].out.X
                   /\ calls[i].out.X[f] =
                         WindowMean(calls[i].df, FallbackColumn(calls[i], f),
                                    FallbackWindow(calls[i].g))

\* the row the last iteration of g appended: the last of the buffer, or of
\* the working table when the buffer is empty
Appended(g) ==
    IF buffer[g] # <<>> THEN Last(buffer[g]) ELSE Last(df[g])

\* C23: the row appended after predicting period p carries timestamp p, the
\* clamped prediction as its target value and the feature vector synthesized
\* for p
C23_AppendedRowSynthesized ==
    \A g \in Grans :
        Iterated(g) =>
            /\ Appended(g).date = calls[1].out.next_date
            /\ Appended(g).v[TARGET_COL] = calls[1].out.pred
            /\ \A f \in DOMAIN calls[1].out.X :
                  Appended(g).v[f] = calls[1].out.X[f]

\* C24 as stated: the first record a loop emits is for the period one unit
\* after the latest period of the granularity's history, monthly included
C24_FirstAfterLast ==
    \A g \in Grans :
        RecordsOf(all_predictions, g) # <<>> =>
            RecordsOf(all_predictions, g)[1].feature_date
                = UnitAfter(g, LastKnown(g))

\* the last historical month is the current calendar month
CurrentMonthKnown == LastKnown("monthly") = MonthStart(now)

\* C24: the first record a loop emits is for the period one unit after the
\* latest period of the granularity's history, and no record is for a period
\* of the history, except that the monthly loop starts at the last historical
\* month itself when that month is the current calendar month
C24_FirstPeriod ==
    \A g \in Grans :
        RecordsOf(all_predictions, g) # <<>> =>
            IF g = "monthly" /\ CurrentMonthKnown
            THEN /\ RecordsOf(all_predictions, g)[1].feature_date
                       = LastKnown(g)
                 /\ \A i \in 2..Len(RecordsOf(all_predictions, g)) :
                       RecordsOf(all_predictions, g)[i].feature_date
                           > LastKnown(g)
            ELSE /\ RecordsOf(all_predictions, g)[1].feature_date
                       = UnitAfter(g, LastKnown(g))
                 /\ \A i \in 1..Len(RecordsOf(all_predictions, g)) :
                       RecordsOf(all_predictions, g)[i].feature_date
                           > LastKnown(g)

\* the monthly loop has emitted two records, the first for the last
\* historical month, which is the current month
C24_Witness ==
    /\ Len(RecordsOf(all_predictions, "monthly")) >= 2
    /\ CurrentMonthKnown
    /\ RecordsOf(all_predictions, "monthly")[1].feature_date
          = LastKnown("monthly")

\* the horizon limit of a granularity: the earlier of now + 31 days truncated
\* to the granularity and the last known period plus the maximum window
HorizonLimit(g) ==
    CASE g = "hourly" ->
            Min(now + 31 * 24, LastKnown(g) + 150 * 24)
      [] g = "daily" ->
            Min(DayStart(now + 31 * 24), LastKnown(g) + 180 * 24)
      [] g = "weekly" ->
            Min(WeekStart(now + 31 * 24), LastKnown(g) + 32 * 7 * 24)
      [] g = "monthly" ->
            Min(MonthStart(now + 31 * 24), AddMonths(LastKnown(g), 18))

\* C25: no record of a granularity's loop is dated after that granularity's
\* horizon limit
C25_WithinHorizon ==
    \A g \in Grans :
        \A i \in 1..Len(RecordsOf(all_predictions, g)) :
            RecordsOf(all_predictions, g)[i].feature_date <= HorizonLimit(g)

\* a finished run whose last hourly record is dated at the limit, 150 days
\* after the last known hour, which is earlier than now + 31 days
C25_Witness ==
    /\ pc = "done"
    /\ RecordsOf(results, "hourly") # <<>>
    /\ LastKnown("hourly") + 150 * 24 < now + 31 * 24
    /\ Last(RecordsOf(results, "hourly")).feature_date
          = LastKnown("hourly") + 150 * 24

\* the records of a loop are in chronological order, each later than the one
\* before
Chronological(recs) ==
    \A i \in 1..(Len(recs) - 1) :
        recs[i].feature_date < recs[i + 1].feature_date

\* a step that stays in g's loop is one iteration: the count goes up by one
\* and stays within max_iterations(g), the current period advances by one
\* unit, and the loop's records are in chronological order
Progress(g) ==
    /\ count'[g] = count[g] + 1
    /\ count'[g] <= IterationCap(g)
    /\ OneUnitLater(g, cur[g], cur'[g])
    /\ Chronological(RecordsOf(all_predictions', g))

\* C26: each granularity's loop ends after at most max_iterations(g)
\* iterations: every step taken inside the loop either leaves it or advances
\* the period by one unit and increments the count, which never exceeds
\* max_iterations(g); the records are in chronological order
C26_LoopsTerminate ==
    [][\A g \in Grans : pc = g => (pc' # g \/ Progress(g))]_vars

\* the hourly loop has ended after two iterations or more, every call
\* having returned
C26_Witness ==
    /\ pc = "daily"
    /\ count["hourly"] >= 2
    /\ Len(RecordsOf(all_predictions, "hourly")) = count["hourly"]

\* table a is the beginning of table b
Begins(a, b) == Len(a) <= Len(b) /\ SubSeq(b, 1, Len(a)) = a

\* C27: no step changes the history tables (the tables that were persisted),
\* every working table keeps the rows it has and only grows, and its first
\* rows are the rows of the history, unchanged
C27_HistoryReadOnly ==
    [][/\ hist' = hist
       /\ \A g \in Grans :
            /\ Begins(df[g], df'[g])
            /\ Begins(hist[g], df'[g])]_vars

\* a finished run whose weekly working table holds the history's rows and a
\* synthesized row after them
C27_Witness ==
    /\ pc = "done"
    /\ Len(df["weekly"]) > Len(hist["weekly"])
    /\ Begins(hist["weekly"], df["weekly"])
    /\ Len(df["hourly"]) > Len(hist["hourly"])

\* the outcome of the call c made again with the function's call counter at
\* k, on an invocation of the model that does not fail
Again(c, k) ==
    PredictNext(models[c.g], features[c.g], c.df, Freq(c.g), c.target_date,
                c.max_hist_date, k, MaxFail + 1)

\* C28: a call that the model itself does not fail has the same outcome (it
\* raises or not, and the prediction) whatever the value of the call counter
\* kept on the function: in a fresh process (0) or after DebugPrints calls
C28_CounterIndependent ==
    \A i \in 1..Len(calls) :
        calls[i].out.why # "ModelError" =>
            \A k \in {0, DebugPrints} :
                /\ Again(calls[i], k).raised = calls[i].out.raised
                /\ Again(calls[i], k).pred = calls[i].out.pred

\* the dates of the year's table of g that the loop passed before current
PassedDates(g, current) ==
    {YearData[g][i].date : i \in 1..Len(YearData[g])}
        \cap {d \in EvalFirst(g)..current : d < current}

\* the value of the working table's row of this date
Forecast(table, date) ==
    LET Keep(r) == r.date = date IN Last(SelectSeq(table, Keep)).v[TARGET_COL]

\* the result holds, for g, exactly the records of the dates the loop passed,
\* each with the prediction its iteration made
KeptInResult(g, res) ==
    IF PassedDates(g, cur[g]) = {} THEN g \notin DOMAIN res
    ELSE /\ g \in DOMAIN res
         /\ Len(res[g]) = Cardinality(PassedDates(g, cur[g]))
         /\ {res[g][i].date : i \in 1..Len(res[g])} = PassedDates(g, cur[g])
         /\ \A i \in 1..Len(res[g]) :
                res[g][i].prediction = Forecast(df[g], res[g][i].date)

\* the step is a call of _predict_next in the loop of g that raises
EvalRaised(g) ==
    pc = EvalPc(g) /\ calls' # calls /\ calls'[1].out.raised

\* C29: in predict_year an exception of _predict_next at iteration k of the
\* daily, weekly or monthly loop ends only that loop: the records of the
\* iterations 1..k-1 are in the returned result, the results of the loops
\* before are untouched, and predict_year goes on to the next loop
C29_ErrorEndsOnlyItsLoop ==
    [][\A g \in EvalGrans :
          EvalRaised(g) =>
              /\ pc' = EvalNext(g)
              /\ KeptInResult(g, results')
              /\ \A h \in DOMAIN results : results'[h] = results[h]
              /\ count' = count /\ df' = df]_vars

\* C29 witness: the daily loop was ended by an exception at its fifth
\* iteration, after recording two predictions that are in the result, and
\* the weekly loop has iterated since
C29_Witness ==
    /\ pc = "predict_weekly"
    /\ models.daily.failAt = MaxFail
    /\ count.daily = MaxFail - 1
    /\ "daily" \in DOMAIN results
    /\ Len(results.daily) = 2
    /\ count.weekly >= 1


\* the stages of run_inference a loop's stage comes before
StagesAfter(g) ==
    CASE g = "hourly" -> {"daily", "weekly", "monthly", "merge", "done"}
      [] g = "daily" -> {"weekly", "monthly", "merge", "done"}
      [] g = "weekly" -> {"monthly", "merge", "done"}
      [] g = "monthly" -> {"merge", "done"}

\* the hours of one period of the hourly, daily and weekly granularities
UnitHours(g) ==
    CASE g = "hourly" -> 1 [] g = "daily" -> 24 [] g = "weekly" -> 168

\* the periods after the last known one, up to the horizon limit
PeriodsDue(g) ==
    {t \in (LastKnown(g) + 1)..PredLimit(g) :
        (t - LastKnown(g)) % UnitHours(g) = 0}

\* the periods g's loop has emitted a record for
PeriodsRecorded(g) ==
    LET recs == RecordsOf(all_predictions, g)
    IN  {recs[i].feature_date : i \in 1..Len(recs)}

\* C30: the iteration cap of the hourly, daily and weekly loops is never the
\* binding constraint: once the loop has stopped its current period is past
\* the horizon limit and every period after the last known one, up to the
\* limit, has a record; the caps 3600, 180 and 32 are the periods of the
\* 150-day, 180-day and 32-week windows
C30_CapNeverBinds ==
    /\ max_hours = MaxPredHourDays * 24
    /\ max_days = MaxPredDayDays
    /\ max_weeks = MaxPredWeeks
    /\ \A g \in {"hourly", "daily", "weekly"} :
          pc \in StagesAfter(g) =>
              /\ cur[g] > PredLimit(g)
              /\ PeriodsDue(g) \subseteq PeriodsRecorded(g)

\* C30 witness: the hourly, daily and weekly loops stopped at exactly 3600,
\* 180 and 32 iterations with their period past the limit, while the monthly
\* loop stopped at 12 with its period not past its limit
C30_Witness ==
    /\ pc = "merge"
    /\ count.hourly = max_hours /\ cur.hourly > PredLimit("hourly")
    /\ count.daily = max_days /\ cur.daily > PredLimit("daily")
    /\ count.weekly = max_weeks /\ cur.weekly > PredLimit("weekly")
    /\ Cardinality(PeriodsDue("hourly")) = max_hours
    /\ count.monthly = max_months /\ cur.monthly <= PredLimit("monthly")

============================================================================
